---- MODULE Spec2Model ----
(***************************************************************************)
(* Referral tracking service (achiit/node-referral-system).                *)
(*                                                                         *)
(* The model follows the Express handlers of the most complete variant     *)
(* (src/unnamed/part_001).  A handler is cut at its awaits: the code       *)
(* between two awaits runs without interruption on the Node event loop,    *)
(* and each awaited store call (findOne, create, save) is one statement    *)
(* executed by the store.  One action is therefore one store call together *)
(* with the synchronous code that follows it up to the next await.         *)
(*                                                                         *)
(*   users    table users of the store                                     *)
(*   req      the requests: req[i] holds the request body, the await the   *)
(*            handler is suspended at, its locals and, once answered, the  *)
(*            response                                                     *)
(*   clock    the store's NOW                                              *)
(*   variant  the source file that is running                              *)
(***************************************************************************)
EXTENDS Naturals, Integers, Sequences, FiniteSets, TLC

\* ------------------------------------------------------------------ bounds
\* requests served in one behaviour
NumReq == 3
\* handlers suspended at an await at the same time
MaxInFlight == 2
\* distinct wallet addresses clients send
MaxWallet == 3
\* characters generateUserId draws (9 in the code)
UserIdLen == 1
\* values Math.floor(Math.random() * n) takes: 0..RandBound-1
RandBound == 3
\* leading characters of a UUID that are modelled (36 in the library)
UuidLen == 1
\* longest array of wallet addresses sent to /bulk-lookup
MaxLookup == 2

\* --------------------------------------------------------------- constants
\* uuidv4().slice(0, 8)
ReferralCodeLen == 8

\* ------------------------------------------------------------- vocabulary
\* SQL NULL in a nullable column
NULL == "NULL"
\* an empty or missing body field (falsy in JavaScript)
Absent == ""

WalletNames == <<"0xAAA", "0xBBB", "0xCCC", "0xDDD", "0xEEE">>
Wallets == {WalletNames[k] : k \in 1..MaxWallet}

Req == 1..NumReq

\* messages of the responses
MsgMissingWallet == "Missing wallet_address"
MsgMissingEither == "Missing wallet_address or referred_by"
MsgDuplicate == "This wallet address is already registered."
MsgNoReferrer == "Referrer not found"
\* err.message of a Sequelize UniqueConstraintError
MsgValidation == "Validation error"
\* err.message of any other rejection of a store call
MsgStore == "store failure"

VARIABLES users, req, clock, variant
vars == <<users, req, clock, variant>>

\* ------------------------------------------------------------- generators
chars == <<"A","B","C","D","E","F","G","H","I","J","K","L","M",
           "N","O","P","Q","R","S","T","U","V","W","X","Y","Z",
           "0","1","2","3","4","5","6","7","8","9">>

\* Math.floor(Math.random() * chars.length): an index into chars (0-based)
RandomIndex == 0..(RandBound - 1)

RECURSIVE GenerateFrom(_, _)
\* the strings the loop of generateUserId can hold in result after n more
\* iterations, starting from result
GenerateFrom(result, n) ==
  IF n = 0 THEN {result}
  ELSE UNION {GenerateFrom(result \o chars[k + 1], n - 1) : k \in RandomIndex}

generateUserId == GenerateFrom("", UserIdLen)

\* ------------------------------------------------------------------ store
\* mutant: a new row starts with one referral counted
NewRow_TotalOne(userid, wallet_address, referred_by, now) ==
  [userid |-> userid, wallet_address |-> wallet_address,
   referred_by |-> referred_by, referred_users |-> <<>>,
   total_referrals |-> 1, created_at |-> now]

\* a row of table users
NewRow(userid, wallet_address, referred_by, now) ==
  [userid |-> userid, wallet_address |-> wallet_address,
   referred_by |-> referred_by, referred_users |-> <<>>,
   total_referrals |-> 0, created_at |-> now]

\* the value of a local that holds no model instance (null / undefined)
NoRow ==
  [userid |-> Absent, wallet_address |-> Absent, referred_by |-> NULL,
   referred_users |-> <<>>, total_referrals |-> 0, created_at |-> 0]

\* mutant: wallet_address declared without unique: true
UniqueFields_WalletNotUnique == {"userid"}

\* columns that carry a uniqueness constraint (primaryKey / unique: true)
UniqueFields == {"userid", "wallet_address"}

\* the rows that match { where: { field: value } }
Matching(tbl, field, value) == {u \in tbl : u[field] = value}

\* User.findOne: a matching row, or NoRow for null
FindOne(tbl, field, value) ==
  IF Matching(tbl, field, value) = {} THEN {NoRow}
  ELSE Matching(tbl, field, value)

\* the constraints an INSERT of row would violate
UniqueViolations(tbl, row) ==
  {f \in UniqueFields : \E u \in tbl : u[f] = row[f]}

\* mutant: the UPDATE of save() has no WHERE clause
SaveReferrer_NoWhere(tbl, inst) ==
  {[u EXCEPT !.referred_users = inst.referred_users,
             !.total_referrals = inst.total_referrals] : u \in tbl}

\* mutant: save() writes total_referrals only, as in src/app.js
SaveReferrer_TotalOnly(tbl, inst) ==
  {IF u.userid = inst.userid
     THEN [u EXCEPT !.total_referrals = inst.total_referrals]
     ELSE u : u \in tbl}

\* instance.save(): UPDATE users SET referred_users, total_referrals
\* WHERE userid = inst.userid
SaveReferrer(tbl, inst) ==
  {IF u.userid = inst.userid
     THEN [u EXCEPT !.referred_users = inst.referred_users,
                    !.total_referrals = inst.total_referrals]
     ELSE u : u \in tbl}

\* --------------------------------------------------------------- requests
\* req.body.wallet_addresses when the body has no such field
NoArray == [isArray |-> FALSE, items |-> <<>>]

\* const mapping = {}
EmptyMapping == [w \in {} |-> Absent]

\* a request that has not arrived yet
IdleReq ==
  [kind |-> "none", pc |-> "idle",
   wallet_address |-> Absent, referred_by |-> Absent,
   wallet_addresses |-> NoArray,
   userid |-> Absent, referral_code |-> Absent,
   referrer |-> NoRow, newUser |-> NoRow,
   status |-> 0, error |-> "", err |-> "", referrer_new_total |-> 0,
   mapping |-> EmptyMapping]

\* the handler returns: its locals userid, referral_code and referrer go out
\* of scope
Return(r) ==
  [r EXCEPT !.pc = "done", !.userid = Absent, !.referral_code = Absent,
            !.referrer = NoRow]

\* res.status(s).json({ error: msg })
Respond(r, s, msg) == [Return(r) EXCEPT !.status = s, !.error = msg]

\* catch (err) { res.status(500).json({ error: err.message }) }
Caught(r, e, msg) == [Respond(r, 500, msg) EXCEPT !.err = e]

\* res.status(201).json({ userid, wallet_address, referrer_new_total })
Created(r, total) ==
  [Return(r) EXCEPT !.status = 201, !.userid = r.newUser.userid,
                    !.referrer_new_total = total]

Init ==
  /\ users = {}
  /\ req = [i \in Req |-> IdleReq]
  /\ clock = 1
  /\ variant = "src/unnamed/part_001"

\* the requests whose handler is suspended at an await
InFlight == {j \in Req : req[j].pc \notin {"idle", "done"}}

\* requests are numbered in the order they arrive; at most MaxInFlight of
\* them are being served at a time
Arrives(i) ==
  /\ req[i].pc = "idle"
  /\ \A j \in Req : j < i => req[j].pc # "idle"
  /\ Cardinality(InFlight) < MaxInFlight

\* handler i answers with a and returns
Answer(i, a) == req' = [req EXCEPT ![i] = a]

\* handler i suspends at its next await
Await(i, r) == req' = [req EXCEPT ![i] = r]

\* POST /register: the handler up to its first await
Register(i, wallet_address) ==
  /\ variant = "src/unnamed/part_001"
  /\ Arrives(i)
  /\ LET r == [req[i] EXCEPT !.kind = "register",
                             !.wallet_address = wallet_address]
     IN IF wallet_address = Absent
          THEN Answer(i, Respond(r, 400, MsgMissingWallet))
          ELSE Await(i, [r EXCEPT !.pc = "findWallet"])
  /\ UNCHANGED <<users, clock, variant>>

\* mutant: the duplicate check of /register is missing
RegisterFindOne_NoDuplicateCheck(i) ==
  /\ variant = "src/unnamed/part_001"
  /\ req[i].kind = "register"
  /\ req[i].pc = "findWallet"
  /\ \E userid \in generateUserId :
       Await(i, [req[i] EXCEPT !.pc = "create", !.userid = userid])
  /\ UNCHANGED <<users, clock, variant>>

\* POST /register: findOne by wallet_address resolves; duplicate check;
\* generateUserId
RegisterFindOne(i) ==
  /\ variant = "src/unnamed/part_001"
  /\ req[i].kind = "register"
  /\ req[i].pc = "findWallet"
  /\ \E existingUser \in FindOne(users, "wallet_address", req[i].wallet_address) :
       IF existingUser # NoRow
         THEN Answer(i, Respond(req[i], 400, MsgDuplicate))
         ELSE \E userid \in generateUserId :
                Await(i, [req[i] EXCEPT !.pc = "create", !.userid = userid])
  /\ UNCHANGED <<users, clock, variant>>

\* POST /register: User.create resolves (201) or rejects on a constraint
RegisterCreate(i) ==
  /\ variant = "src/unnamed/part_001"
  /\ req[i].kind = "register"
  /\ req[i].pc = "create"
  /\ LET row == NewRow(req[i].userid, req[i].wallet_address, NULL, clock)
         viol == UniqueViolations(users, row)
     IN IF viol = {}
          THEN /\ users' = users \cup {row}
               /\ clock' = clock + 1
               /\ Answer(i, Created([req[i] EXCEPT !.newUser = row], 0))
          ELSE /\ \E f \in viol :
                    Answer(i, Caught(req[i], f \o " must be unique",
                                     MsgValidation))
               /\ UNCHANGED <<users, clock>>
  /\ UNCHANGED variant

\* the values clients send as referred_by: user ids, and wallet addresses
\* mistaken for them
RefInputs == generateUserId \cup {WalletNames[1]} \cup {Absent}

\* mutant: only wallet_address is validated
RegisterReferred_WalletOnly(i, wallet_address, referred_by) ==
  /\ variant = "src/unnamed/part_001"
  /\ Arrives(i)
  /\ LET r == [req[i] EXCEPT !.kind = "register-referred",
                             !.wallet_address = wallet_address,
                             !.referred_by = referred_by]
     IN IF wallet_address = Absent
          THEN Answer(i, Respond(r, 400, MsgMissingEither))
          ELSE Await(i, [r EXCEPT !.pc = "findWallet"])
  /\ UNCHANGED <<users, clock, variant>>

\* POST /register-referred: the handler up to its first await
RegisterReferred(i, wallet_address, referred_by) ==
  /\ variant = "src/unnamed/part_001"
  /\ Arrives(i)
  /\ LET r == [req[i] EXCEPT !.kind = "register-referred",
                             !.wallet_address = wallet_address,
                             !.referred_by = referred_by]
     IN IF wallet_address = Absent \/ referred_by = Absent
          THEN Answer(i, Respond(r, 400, MsgMissingEither))
          ELSE Await(i, [r EXCEPT !.pc = "findWallet"])
  /\ UNCHANGED <<users, clock, variant>>

\* mutant: the referrer is checked before the duplicate wallet
ReferredFindWallet_ReferrerFirst(i) ==
  /\ variant = "src/unnamed/part_001"
  /\ req[i].kind = "register-referred"
  /\ req[i].pc = "findWallet"
  /\ \E referrer \in FindOne(users, "userid", req[i].referred_by) :
     \E existingUser \in FindOne(users, "wallet_address", req[i].wallet_address) :
       IF referrer = NoRow
         THEN Answer(i, Respond(req[i], 404, MsgNoReferrer))
         ELSE IF existingUser # NoRow
           THEN Answer(i, Respond(req[i], 400, MsgDuplicate))
           ELSE Await(i, [req[i] EXCEPT !.pc = "findReferrer"])
  /\ UNCHANGED <<users, clock, variant>>

\* POST /register-referred: findOne by wallet_address resolves; duplicate
\* check
ReferredFindWallet(i) ==
  /\ variant = "src/unnamed/part_001"
  /\ req[i].kind = "register-referred"
  /\ req[i].pc = "findWallet"
  /\ \E existingUser \in FindOne(users, "wallet_address", req[i].wallet_address) :
       IF existingUser # NoRow
         THEN Answer(i, Respond(req[i], 400, MsgDuplicate))
         ELSE Await(i, [req[i] EXCEPT !.pc = "findReferrer"])
  /\ UNCHANGED <<users, clock, variant>>

\* mutant: a missing referrer is not rejected
ReferredFindReferrer_NoCheck(i) ==
  /\ variant = "src/unnamed/part_001"
  /\ req[i].kind = "register-referred"
  /\ req[i].pc = "findReferrer"
  /\ \E referrer \in FindOne(users, "userid", req[i].referred_by) :
     \E userid \in generateUserId :
       Await(i, [req[i] EXCEPT !.pc = "create", !.referrer = referrer,
                               !.userid = userid])
  /\ UNCHANGED <<users, clock, variant>>

\* mutant: the referrer is looked up by wallet_address, as in src/app.js
ReferredFindReferrer_ByWallet(i) ==
  /\ variant = "src/unnamed/part_001"
  /\ req[i].kind = "register-referred"
  /\ req[i].pc = "findReferrer"
  /\ \E referrer \in FindOne(users, "wallet_address", req[i].referred_by) :
       IF referrer = NoRow
         THEN Answer(i, Respond(req[i], 404, MsgNoReferrer))
         ELSE \E userid \in generateUserId :
                Await(i, [req[i] EXCEPT !.pc = "create",
                                        !.referrer = referrer,
                                        !.userid = userid])
  /\ UNCHANGED <<users, clock, variant>>

\* POST /register-referred: findOne by userid resolves; referrer check;
\* generateUserId
ReferredFindReferrer(i) ==
  /\ variant = "src/unnamed/part_001"
  /\ req[i].kind = "register-referred"
  /\ req[i].pc = "findReferrer"
  /\ \E referrer \in FindOne(users, "userid", req[i].referred_by) :
       IF referrer = NoRow
         THEN Answer(i, Respond(req[i], 404, MsgNoReferrer))
         ELSE \E userid \in generateUserId :
                Await(i, [req[i] EXCEPT !.pc = "create",
                                        !.referrer = referrer,
                                        !.userid = userid])
  /\ UNCHANGED <<users, clock, variant>>

\* POST /register-referred: User.create resolves or rejects on a
\* constraint; on success the in-memory referrer is updated and saved
ReferredCreate(i) ==
  /\ variant = "src/unnamed/part_001"
  /\ req[i].kind = "register-referred"
  /\ req[i].pc = "create"
  /\ LET row == NewRow(req[i].userid, req[i].wallet_address,
                       req[i].referred_by, clock)
         viol == UniqueViolations(users, row)
         referrer == req[i].referrer
     IN IF viol = {}
          THEN /\ users' = users \cup {row}
               /\ clock' = clock + 1
               /\ Await(i, [req[i] EXCEPT
                       !.pc = "save", !.newUser = row,
                       !.referrer =
                         [referrer EXCEPT
                            !.referred_users =
                               Append(referrer.referred_users, req[i].userid),
                            !.total_referrals =
                               referrer.total_referrals + 1]])
          ELSE /\ \E f \in viol :
                    Answer(i, Caught(req[i], f \o " must be unique",
                                     MsgValidation))
               /\ UNCHANGED <<users, clock>>
  /\ UNCHANGED variant

\* POST /register-referred: referrer.save() resolves; 201
ReferredSave(i) ==
  /\ variant = "src/unnamed/part_001"
  /\ req[i].kind = "register-referred"
  /\ req[i].pc = "save"
  /\ users' = SaveReferrer(users, req[i].referrer)
  /\ Answer(i, Created(req[i], req[i].referrer.total_referrals))
  /\ UNCHANGED <<clock, variant>>

\* an awaited store call rejects for a reason other than a constraint
\* (connection lost, timeout): the catch block answers 500
StoreFault(i) ==
  /\ req[i].pc \in {"findWallet", "findReferrer", "create", "save"}
  /\ Answer(i, Caught(req[i], MsgStore, MsgStore))
  /\ UNCHANGED <<users, clock, variant>>

Next ==
  \/ \E i \in Req : \E w \in Wallets \cup {Absent} : Register(i, w)
  \/ \E i \in Req : RegisterFindOne(i)
  \/ \E i \in Req : RegisterCreate(i)
  \/ \E i \in Req : \E w \in Wallets \cup {Absent} : \E r \in RefInputs :
       RegisterReferred(i, w, r)
  \/ \E i \in Req : ReferredFindWallet(i)
  \/ \E i \in Req : ReferredFindReferrer(i)
  \/ \E i \in Req : ReferredCreate(i)
  \/ \E i \in Req : ReferredSave(i)

\* the store answers every call; inserts fail only on its constraints
Spec == Init /\ [][Next]_vars

NextFault == Next \/ \E i \in Req : StoreFault(i)

\* the store may also reject any call
SpecFault == Init /\ [][NextFault]_vars

\* ------------------------------------------------------------- src/app.js
\* The variant with a UUID primary key and a separate referral_code.  Its
\* column frontend_id ("TW-" and six digits, nullable, unconstrained, never
\* read) is left out of the rows.
hex == <<"0","1","2","3","4","5","6","7","8","9","a","b","c","d","e","f">>

\* uuidv4(): the leading UuidLen characters, each a random hex digit
uuidv4 == [1..UuidLen -> {hex[k + 1] : k \in RandomIndex}]

Min(a, b) == IF a < b THEN a ELSE b

\* String.prototype.slice(from, to) on a sequence of characters
Slice(t, from, to) == SubSeq(t, from + 1, Min(to, Len(t)))

RECURSIVE Join(_)
\* the string of a sequence of characters
Join(t) == IF t = <<>> THEN "" ELSE Head(t) \o Join(Tail(t))

generateReferralCode == {Join(Slice(u, 0, ReferralCodeLen)) : u \in uuidv4}

App_NewRow(id, wallet_address, referral_code, referred_by, now) ==
  [id |-> id, wallet_address |-> wallet_address,
   referral_code |-> referral_code, referred_by |-> referred_by,
   total_referrals |-> 0, created_at |-> now]

App_UniqueFields == {"id", "wallet_address", "referral_code"}

App_UniqueViolations(tbl, row) ==
  {f \in App_UniqueFields : \E u \in tbl : u[f] = row[f]}

\* instance.save(): UPDATE users SET total_referrals WHERE id = inst.id
App_SaveReferrer(tbl, inst) ==
  {IF u.id = inst.id
     THEN [u EXCEPT !.total_referrals = inst.total_referrals]
     ELSE u : u \in tbl}

\* res.status(201).json({ ..., referrer_new_total })
App_Created(r, total) ==
  [Return(r) EXCEPT !.status = 201, !.referrer_new_total = total]

App_Register(i, wallet_address) ==
  /\ variant = "src/app.js"
  /\ Arrives(i)
  /\ LET r == [req[i] EXCEPT !.kind = "register",
                             !.wallet_address = wallet_address]
     IN IF wallet_address = Absent
          THEN Answer(i, Respond(r, 400, MsgMissingWallet))
          ELSE Await(i, [r EXCEPT !.pc = "findWallet"])
  /\ UNCHANGED <<users, clock, variant>>

App_RegisterFindOne(i) ==
  /\ variant = "src/app.js"
  /\ req[i].kind = "register"
  /\ req[i].pc = "findWallet"
  /\ \E existingUser \in FindOne(users, "wallet_address", req[i].wallet_address) :
       IF existingUser # NoRow
         THEN Answer(i, Respond(req[i], 400, MsgDuplicate))
         ELSE \E referral_code \in generateReferralCode :
                Await(i, [req[i] EXCEPT !.pc = "create",
                                        !.referral_code = referral_code])
  /\ UNCHANGED <<users, clock, variant>>

\* the rows User.create may send for request i: the id is the default
\* UUIDV4 of the model
App_Build(i, referred_by) ==
  {App_NewRow(Join(u), req[i].wallet_address, req[i].referral_code,
              referred_by, clock) : u \in uuidv4}

App_RegisterCreate(i) ==
  /\ variant = "src/app.js"
  /\ req[i].kind = "register"
  /\ req[i].pc = "create"
  /\ \E row \in App_Build(i, NULL) :
       LET viol == App_UniqueViolations(users, row)
       IN IF viol = {}
            THEN /\ users' = users \cup {row}
                 /\ clock' = clock + 1
                 /\ Answer(i, App_Created([req[i] EXCEPT !.newUser = row], 0))
            ELSE /\ \E f \in viol :
                      Answer(i, Caught(req[i], f \o " must be unique",
                                       MsgValidation))
                 /\ UNCHANGED <<users, clock>>
  /\ UNCHANGED variant

\* the values clients send as referred_by: the referrer's wallet address
App_RefInputs == Wallets \cup {Absent}

App_RegisterReferred(i, wallet_address, referred_by) ==
  /\ variant = "src/app.js"
  /\ Arrives(i)
  /\ LET r == [req[i] EXCEPT !.kind = "register-referred",
                             !.wallet_address = wallet_address,
                             !.referred_by = referred_by]
     IN IF wallet_address = Absent \/ referred_by = Absent
          THEN Answer(i, Respond(r, 400, MsgMissingEither))
          ELSE Await(i, [r EXCEPT !.pc = "findWallet"])
  /\ UNCHANGED <<users, clock, variant>>

App_ReferredFindWallet(i) ==
  /\ variant = "src/app.js"
  /\ req[i].kind = "register-referred"
  /\ req[i].pc = "findWallet"
  /\ \E existingUser \in FindOne(users, "wallet_address", req[i].wallet_address) :
       IF existingUser # NoRow
         THEN Answer(i, Respond(req[i], 400, MsgDuplicate))
         ELSE Await(i, [req[i] EXCEPT !.pc = "findReferrer"])
  /\ UNCHANGED <<users, clock, variant>>

\* the referrer is looked up by wallet_address
App_ReferredFindReferrer(i) ==
  /\ variant = "src/app.js"
  /\ req[i].kind = "register-referred"
  /\ req[i].pc = "findReferrer"
  /\ \E referrer \in FindOne(users, "wallet_address", req[i].referred_by) :
       IF referrer = NoRow
         THEN Answer(i, Respond(req[i], 404, MsgNoReferrer))
         ELSE \E referral_code \in generateReferralCode :
                Await(i, [req[i] EXCEPT !.pc = "create",
                                        !.referrer = referrer,
                                        !.referral_code = referral_code])
  /\ UNCHANGED <<users, clock, variant>>

App_ReferredCreate(i) ==
  /\ variant = "src/app.js"
  /\ req[i].kind = "register-referred"
  /\ req[i].pc = "create"
  /\ \E row \in App_Build(i, req[i].referred_by) :
       LET viol == App_UniqueViolations(users, row)
           referrer == req[i].referrer
       IN IF viol = {}
            THEN /\ users' = users \cup {row}
                 /\ clock' = clock + 1
                 /\ Await(i, [req[i] EXCEPT
                         !.pc = "save", !.newUser = row,
                         !.referrer =
                           [referrer EXCEPT
                              !.total_referrals =
                                 referrer.total_referrals + 1]])
            ELSE /\ \E f \in viol :
                      Answer(i, Caught(req[i], f \o " must be unique",
                                       MsgValidation))
                 /\ UNCHANGED <<users, clock>>
  /\ UNCHANGED variant

App_ReferredSave(i) ==
  /\ variant = "src/app.js"
  /\ req[i].kind = "register-referred"
  /\ req[i].pc = "save"
  /\ users' = App_SaveReferrer(users, req[i].referrer)
  /\ Answer(i, App_Created(req[i], req[i].referrer.total_referrals))
  /\ UNCHANGED <<clock, variant>>

NextApp ==
  \/ \E i \in Req : \E w \in Wallets \cup {Absent} : App_Register(i, w)
  \/ \E i \in Req : App_RegisterFindOne(i)
  \/ \E i \in Req : App_RegisterCreate(i)
  \/ \E i \in Req : \E w \in Wallets \cup {Absent} : \E r \in App_RefInputs :
       App_RegisterReferred(i, w, r)
  \/ \E i \in Req : App_ReferredFindWallet(i)
  \/ \E i \in Req : App_ReferredFindReferrer(i)
  \/ \E i \in Req : App_ReferredCreate(i)
  \/ \E i \in Req : App_ReferredSave(i)

InitBoth ==
  /\ users = {}
  /\ req = [i \in Req |-> IdleReq]
  /\ clock = 1
  /\ variant \in {"src/unnamed/part_001", "src/app.js"}

NextBoth == Next \/ NextApp

\* either variant is deployed; the store answers every call
SpecBoth == InitBoth /\ [][NextBoth]_vars

\* ---------------------------------------------------- src/unnamed/part_000
\* The earliest variant.  Its rows, generateReferralCode, the UUID default of
\* id and the update made by save() read as in src/app.js; its column
\* wallet_address is not unique and neither handler looks the wallet up
\* before User.create.
P0_UniqueFields == {"id", "referral_code"}

P0_UniqueViolations(tbl, row) ==
  {f \in P0_UniqueFields : \E u \in tbl : u[f] = row[f]}

\* POST /register up to its await: validation, generateReferralCode, and
\* the call of User.create
P0_Register(i, wallet_address) ==
  /\ variant = "src/unnamed/part_000"
  /\ Arrives(i)
  /\ LET r == [req[i] EXCEPT !.kind = "register",
                             !.wallet_address = wallet_address]
     IN IF wallet_address = Absent
          THEN Answer(i, Respond(r, 400, MsgMissingWallet))
          ELSE \E referral_code \in generateReferralCode :
                 Await(i, [r EXCEPT !.pc = "create",
                                    !.referral_code = referral_code])
  /\ UNCHANGED <<users, clock, variant>>

\* User.create resolves or rejects
P0_RegisterCreate(i) ==
  /\ variant = "src/unnamed/part_000"
  /\ req[i].kind = "register"
  /\ req[i].pc = "create"
  /\ \E row \in App_Build(i, NULL) :
       LET viol == P0_UniqueViolations(users, row)
       IN IF viol = {}
            THEN /\ users' = users \cup {row}
                 /\ clock' = clock + 1
                 /\ Answer(i, App_Created([req[i] EXCEPT !.newUser = row], 0))
            ELSE /\ \E f \in viol :
                      Answer(i, Caught(req[i], f \o " must be unique",
                                       MsgValidation))
                 /\ UNCHANGED <<users, clock>>
  /\ UNCHANGED variant

\* POST /register-referred up to its first await
P0_RegisterReferred(i, wallet_address, referred_by) ==
  /\ variant = "src/unnamed/part_000"
  /\ Arrives(i)
  /\ LET r == [req[i] EXCEPT !.kind = "register-referred",
                             !.wallet_address = wallet_address,
                             !.referred_by = referred_by]
     IN IF wallet_address = Absent \/ referred_by = Absent
          THEN Answer(i, Respond(r, 400, MsgMissingEither))
          ELSE Await(i, [r EXCEPT !.pc = "findReferrer"])
  /\ UNCHANGED <<users, clock, variant>>

\* findOne({where: {wallet_address: referred_by}}) resolves with one of the
\* rows of that wallet address
P0_ReferredFindReferrer(i) ==
  /\ variant = "src/unnamed/part_000"
  /\ req[i].kind = "register-referred"
  /\ req[i].pc = "findReferrer"
  /\ \E referrer \in FindOne(users, "wallet_address", req[i].referred_by) :
       IF referrer = NoRow
         THEN Answer(i, Respond(req[i], 404, MsgNoReferrer))
         ELSE \E referral_code \in generateReferralCode :
                Await(i, [req[i] EXCEPT !.pc = "create",
                                        !.referrer = referrer,
                                        !.referral_code = referral_code])
  /\ UNCHANGED <<users, clock, variant>>

P0_ReferredCreate(i) ==
  /\ variant = "src/unnamed/part_000"
  /\ req[i].kind = "register-referred"
  /\ req[i].pc = "create"
  /\ \E row \in App_Build(i, req[i].referred_by) :
       LET viol == P0_UniqueViolations(users, row)
           referrer == req[i].referrer
       IN IF viol = {}
            THEN /\ users' = users \cup {row}
                 /\ clock' = clock + 1
                 /\ Await(i, [req[i] EXCEPT
                         !.pc = "save", !.newUser = row,
                         !.referrer =
                           [referrer EXCEPT
                              !.total_referrals =
                                 referrer.total_referrals + 1]])
            ELSE /\ \E f \in viol :
                      Answer(i, Caught(req[i], f \o " must be unique",
                                       MsgValidation))
                 /\ UNCHANGED <<users, clock>>
  /\ UNCHANGED variant

P0_ReferredSave(i) ==
  /\ variant = "src/unnamed/part_000"
  /\ req[i].kind = "register-referred"
  /\ req[i].pc = "save"
  /\ users' = App_SaveReferrer(users, req[i].referrer)
  /\ Answer(i, App_Created(req[i], req[i].referrer.total_referrals))
  /\ UNCHANGED <<clock, variant>>

Init0 ==
  /\ users = {}
  /\ req = [i \in Req |-> IdleReq]
  /\ clock = 1
  /\ variant = "src/unnamed/part_000"

Next0 ==
  \/ \E i \in Req : \E w \in Wallets \cup {Absent} : P0_Register(i, w)
  \/ \E i \in Req : P0_RegisterCreate(i)
  \/ \E i \in Req : \E w \in Wallets \cup {Absent} : \E r \in App_RefInputs :
       P0_RegisterReferred(i, w, r)
  \/ \E i \in Req : P0_ReferredFindReferrer(i)
  \/ \E i \in Req : P0_ReferredCreate(i)
  \/ \E i \in Req : P0_ReferredSave(i)

\* the earliest variant is deployed; the store answers every call
Spec0 == Init0 /\ [][Next0]_vars

\* ====================================================== POST /bulk-lookup
MsgNotArray == "wallet_addresses must be an array"

\* the set of the elements of sequence q
Range(q) == {q[k] : k \in DOMAIN q}

\* the values of wallet_addresses clients send: arrays of wallet addresses,
\* with repetitions, and a body without an array
LookupInputs ==
  {NoArray} \cup
  {[isArray |-> TRUE, items |-> q] :
     q \in UNION {[1..n -> Wallets] : n \in 0..MaxLookup}}

\* the orders in which the store may return the rows of set S
Orders(S) == {q \in [1..Cardinality(S) -> S] : Range(q) = S}

\* mutant: findAll without the where clause
FindAll_NoWhere(tbl, wallet_addresses) ==
  Orders({[wallet_address |-> u.wallet_address, userid |-> u.userid] :
            u \in tbl})

\* User.findAll({where: {wallet_address: wallet_addresses},
\*               attributes: ['wallet_address', 'userid']}):
\* SELECT wallet_address, userid FROM users WHERE wallet_address IN (...),
\* in an order the store chooses
FindAll(tbl, wallet_addresses) ==
  Orders({[wallet_address |-> u.wallet_address, userid |-> u.userid] :
            u \in {v \in tbl : v.wallet_address \in Range(wallet_addresses)}})

\* users.forEach(user => { mapping[user.wallet_address] = user.userid }),
\* over the first n rows: a later row overwrites an earlier key
RECURSIVE ForEach(_, _)
ForEach(rows, n) ==
  IF n = 0 THEN EmptyMapping
  ELSE (rows[n].wallet_address :> rows[n].userid) @@ ForEach(rows, n - 1)

\* POST /bulk-lookup: the handler up to its await
BulkLookup(i, wallet_addresses) ==
  /\ variant = "src/unnamed/part_001"
  /\ Arrives(i)
  /\ LET r == [req[i] EXCEPT !.kind = "bulk-lookup",
                             !.wallet_addresses = wallet_addresses]
     IN IF ~wallet_addresses.isArray
          THEN Answer(i, Respond(r, 400, MsgNotArray))
          ELSE Await(i, [r EXCEPT !.pc = "findAll"])
  /\ UNCHANGED <<users, clock, variant>>

\* findAll resolves; the mapping is built and sent with res.json
BulkFindAll(i) ==
  /\ variant = "src/unnamed/part_001"
  /\ req[i].kind = "bulk-lookup"
  /\ req[i].pc = "findAll"
  /\ \E rows \in FindAll(users, req[i].wallet_addresses.items) :
       Answer(i, [Return(req[i]) EXCEPT !.status = 200,
                                        !.mapping = ForEach(rows, Len(rows))])
  /\ UNCHANGED <<users, clock, variant>>

NextLookup ==
  \/ Next
  \/ \E i \in Req : \E wallet_addresses \in LookupInputs :
       BulkLookup(i, wallet_addresses)
  \/ \E i \in Req : BulkFindAll(i)

\* src/unnamed/part_001 with its lookup endpoint; the store answers every call
SpecLookup == Init /\ [][NextLookup]_vars

\* ================================================================= claims
\* request i is answered in this step
Answered(i) == req[i].pc \notin {"idle", "done"} /\ req'[i].pc = "done"

\* handler i takes a step
Steps(i) == req'[i] # req[i]

\* the number of occurrences of x in sequence q
Count(q, x) == Cardinality({k \in DOMAIN q : q[k] = x})

\* the /register-referred requests that have arrived naming referrer id
Naming(id) ==
  {i \in Req : /\ req[i].kind = "register-referred"
               /\ req[i].pc # "idle"
               /\ req[i].referred_by = id}

\* C1: in every reachable state each user's total_referrals equals the
\* number of other rows whose referred_by is that user's userid.
C1_TotalMatchesReferred ==
  \A u \in users :
    u.total_referrals =
      Cardinality({v \in users : v # u /\ v.referred_by = u.userid})

\* C2: once all the /register-referred requests that name a referrer have
\* finished, and all of them answered 201, the referrer's total_referrals
\* (0 when its row was created) equals their number.
C2_NoLostUpdate ==
  \A u \in users :
    (/\ Naming(u.userid) # {}
     /\ \A i \in Naming(u.userid) : req[i].pc = "done" /\ req[i].status = 201)
    => u.total_referrals = Cardinality(Naming(u.userid))

\* C3: once a /register of wallet w has answered 201, a /register of w
\* whose duplicate check runs afterwards (in particular every /register of w
\* that arrives later) answers 400 with the conflict message in that step
\* and leaves table users as it was.
C3_SecondRegisterConflict ==
  [][\A i \in Req :
       (/\ req[i].kind = "register"
        /\ req[i].pc = "findWallet"
        /\ Steps(i)
        /\ \E j \in Req : /\ req[j].kind = "register"
                          /\ req[j].pc = "done"
                          /\ req[j].status = 201
                          /\ req[j].wallet_address = req[i].wallet_address)
       => /\ req'[i].pc = "done"
          /\ req'[i].status = 400
          /\ req'[i].error = MsgDuplicate
          /\ users' = users]_vars

\* a /register of a wallet was answered 201 and a later one 400 conflict,
\* with a single row for the wallet
C3_Witness ==
  \E i, j \in Req :
    /\ j < i
    /\ req[j].kind = "register" /\ req[j].pc = "done" /\ req[j].status = 201
    /\ req[i].kind = "register" /\ req[i].pc = "done" /\ req[i].status = 400
    /\ req[i].error = MsgDuplicate
    /\ req[i].wallet_address = req[j].wallet_address
    /\ Cardinality(Matching(users, "wallet_address", req[i].wallet_address)) = 1

\* C4: in every reachable state no two rows have the same wallet_address.
C4_WalletUnique ==
  variant = "src/unnamed/part_001" =>
    \A u, v \in users : u.wallet_address = v.wallet_address => u = v

\* a /register and a /register-referred for the same wallet both passed the
\* duplicate check; one inserted its row and the store rejected the other
C4_Witness ==
  \E i, j \in Req :
    /\ req[i].kind # req[j].kind
    /\ req[i].wallet_address = req[j].wallet_address
    /\ req[i].pc = "done" /\ req[i].status = 201
    /\ req[j].pc = "done" /\ req[j].err = "wallet_address must be unique"

\* C5: when /register-referred answers 201, its write to the referrer row
\* leaves total_referrals larger by exactly 1 than the value stored just
\* before the write, and referred_users holding the new userid exactly once.
C5_SaveAddsOne ==
  [][\A i \in Req :
       (/\ req[i].kind = "register-referred"
        /\ req[i].pc = "save"
        /\ Answered(i)
        /\ req'[i].status = 201)
       => \A u \in users :
            u.userid = req[i].referrer.userid =>
              \E v \in users' :
                /\ v.userid = u.userid
                /\ v.total_referrals = u.total_referrals + 1
                /\ Count(v.referred_users, req[i].newUser.userid) = 1]_vars

\* C6 as stated: a /register-referred with both fields present is answered
\* 404 'Referrer not found', with table users unchanged, whenever no user
\* has userid equal to its referred_by.
C6_UnknownReferrer404 ==
  [][\A i \in Req :
       (/\ req[i].kind = "register-referred"
        /\ Answered(i)
        /\ Matching(users, "userid", req[i].referred_by) = {})
       => /\ req'[i].status = 404
          /\ req'[i].error = MsgNoReferrer
          /\ users' = users]_vars

\* C6 amended: a /register-referred whose wallet was found unregistered by
\* the duplicate check, and whose referred_by is no user's userid when the
\* referrer is looked up, is answered 404 'Referrer not found' in that step;
\* it has created no row and the step leaves table users as it was.
C6_UnknownReferrerFreshWallet404 ==
  [][\A i \in Req :
       (/\ req[i].kind = "register-referred"
        /\ req[i].pc = "findReferrer"
        /\ Steps(i)
        /\ Matching(users, "userid", req[i].referred_by) = {})
       => /\ req'[i].pc = "done"
          /\ req'[i].status = 404
          /\ req'[i].error = MsgNoReferrer
          /\ req'[i].newUser = NoRow
          /\ users' = users]_vars

\* a 404 whose referred_by is the wallet address of an existing user
C6_Witness ==
  \E i \in Req :
    /\ req[i].kind = "register-referred"
    /\ req[i].pc = "done" /\ req[i].status = 404
    /\ req[i].error = MsgNoReferrer
    /\ Matching(users, "wallet_address", req[i].referred_by) # {}
    /\ Matching(users, "wallet_address", req[i].wallet_address) = {}

\* the rows the variant's referrer lookup finds for value r
ReferrerRows(r) ==
  IF variant = "src/app.js" THEN Matching(users, "wallet_address", r)
  ELSE Matching(users, "userid", r)

\* C7: in src/unnamed/part_001 and src/app.js, a /register-referred whose
\* wallet is registered when its duplicate check runs is answered 400 with
\* the conflict message in that step, whatever its referred_by.
C7_DuplicateBeforeReferrer ==
  [][\A i \in Req :
       (/\ req[i].kind = "register-referred"
        /\ req[i].pc = "findWallet"
        /\ Steps(i)
        /\ Matching(users, "wallet_address", req[i].wallet_address) # {})
       => /\ req'[i].pc = "done"
          /\ req'[i].status = 400
          /\ req'[i].error = MsgDuplicate
          /\ users' = users]_vars

\* a 400 conflict answered to a request whose referred_by names no referrer
C7_Witness ==
  \E i \in Req :
    /\ req[i].kind = "register-referred"
    /\ req[i].pc = "done" /\ req[i].status = 400
    /\ req[i].error = MsgDuplicate
    /\ ReferrerRows(req[i].referred_by) = {}

\* C8: a /register-referred that ends with an error response has inserted
\* no row (table users is as before the call).
C8_FailureLeavesNoRow ==
  \A i \in Req :
    (/\ req[i].kind = "register-referred"
     /\ req[i].pc = "done"
     /\ req[i].status \in {400, 404, 500})
    => req[i].newUser = NoRow

\* C9: a request whose insert the store rejected on the uniqueness of
\* wallet_address is answered 400 with the conflict message.
C9_ConstraintAnswers400 ==
  \A i \in Req :
    (req[i].pc = "done" /\ req[i].err = "wallet_address must be unique")
    => req[i].status = 400 /\ req[i].error = MsgDuplicate

\* C10: no request ends in failure because the generated userid equals the
\* userid of an existing row.
C10_NoFailureOnIdCollision ==
  \A i \in Req :
    req[i].pc = "done" => req[i].err # "userid must be unique"

\* the columns of a row that are set at creation
Immutable(u) ==
  <<u.userid, u.wallet_address, u.referred_by, u.created_at>>

\* the rows of the next state that continue no row of this state
NewRows == {v \in users' : \A u \in users : Immutable(u) # Immutable(v)}

\* C11: no step deletes a row or changes the userid, wallet_address,
\* referred_by or created_at of a row; a step of /register-referred(w, r)
\* changes at most total_referrals and referred_users of the row whose
\* userid is r, adds at most one row, for w, and leaves every other row
\* unchanged.
C11_Frame ==
  [][/\ \A u \in users : \E v \in users' : Immutable(v) = Immutable(u)
     /\ Cardinality(users') >= Cardinality(users)
     /\ \A i \in Req :
          (req'[i].kind = "register-referred" /\ Steps(i)) =>
            /\ \A u \in users :
                 u.userid # req'[i].referred_by => u \in users'
            /\ Cardinality(NewRows) <= 1
            /\ \A v \in NewRows :
                 v.wallet_address = req'[i].wallet_address]_vars

\* a referral was completed in a table of three rows: the referrer row was
\* updated next to a row that is neither the referrer nor the new user
C11_Witness ==
  \E i \in Req :
    /\ req[i].kind = "register-referred"
    /\ req[i].pc = "done" /\ req[i].status = 201
    /\ \E u \in users :
         /\ u.userid # req[i].referred_by
         /\ u.userid # req[i].userid
    /\ \E u \in users :
         u.userid = req[i].referred_by /\ u.total_referrals = 1

\* C12: a /register(w) answered 201 adds exactly one row, with
\* wallet_address = w, total_referrals = 0, referred_by = null and
\* referred_users = [], and leaves every existing row unchanged.
C12_RegisterAddsOneRow ==
  [][\A i \in Req :
       (/\ req[i].kind = "register"
        /\ Answered(i)
        /\ req'[i].status = 201)
       => \E row \in users' :
            /\ row \notin users
            /\ users' = users \cup {row}
            /\ row.wallet_address = req[i].wallet_address
            /\ row.total_referrals = 0
            /\ row.referred_by = NULL
            /\ row.referred_users = <<>>]_vars

\* a /register was answered 201 after a referral had been counted: the
\* counted referral is still there
C12_Witness ==
  \E i \in Req :
    /\ req[i].kind = "register"
    /\ req[i].pc = "done" /\ req[i].status = 201
    /\ \E u \in users :
         /\ u.total_referrals = 1
         /\ u.created_at < req[i].newUser.created_at
         /\ \E v \in users : /\ v.referred_by = u.userid
                             /\ v.created_at < req[i].newUser.created_at

\* C14: a /register without wallet_address, and a /register-referred without
\* wallet_address or referred_by, is answered 400 with the validation
\* message in the step it arrives in, before any store call, whatever table
\* users holds, and leaves the table unchanged.
C14_ValidationFirst ==
  [][\A i \in Req :
       (/\ req[i].pc = "idle"
        /\ Steps(i)
        /\ \/ req'[i].wallet_address = Absent
           \/ /\ req'[i].kind = "register-referred"
              /\ req'[i].referred_by = Absent)
       => /\ req'[i].pc = "done"
          /\ req'[i].status = 400
          /\ req'[i].error =
               IF req'[i].kind = "register" THEN MsgMissingWallet
               ELSE MsgMissingEither
          /\ users' = users]_vars

\* a /register-referred for a registered wallet, without referred_by, was
\* answered with the validation error, not with the conflict
C14_Witness ==
  \E i \in Req :
    /\ req[i].kind = "register-referred"
    /\ req[i].pc = "done" /\ req[i].status = 400
    /\ req[i].error = MsgMissingEither
    /\ req[i].referred_by = Absent
    /\ Matching(users, "wallet_address", req[i].wallet_address) # {}

\* C15: in every reachable state in which no /register-referred stands
\* between its create and its save, each user's referred_users holds,
\* without duplicates, exactly the userids of the rows whose referred_by is
\* that user's userid.
C15_ReferredUsersIsReverseIndex ==
  \A u \in users :
    (\A i \in Req : req[i].pc # "save") =>
    /\ Range(u.referred_users) =
         {v.userid : v \in Matching(users, "referred_by", u.userid)}
    /\ Cardinality(Range(u.referred_users)) = Len(u.referred_users)

\* C17: in every reachable state each user's total_referrals equals the
\* length of that user's referred_users.
C17_TotalIsLength ==
  \A u \in users : u.total_referrals = Len(u.referred_users)

\* two referrals of one referrer were both answered 201 and one update was
\* lost: the total and the list agree on 1
C17_Witness ==
  \E u \in users :
    /\ u.total_referrals = 1
    /\ Len(u.referred_users) = 1
    /\ \E i, j \in Naming(u.userid) :
         /\ i # j
         /\ req[i].pc = "done" /\ req[i].status = 201
         /\ req[j].pc = "done" /\ req[j].status = 201

\* q is a prefix of r
IsPrefix(q, r) == Len(q) <= Len(r) /\ SubSeq(r, 1, Len(q)) = q

\* C18: in every step each user's total_referrals does not decrease and the
\* earlier referred_users is a prefix of the later one.
C18_ReferralsOnlyGrow ==
  [][\A u \in users :
       \E v \in users' :
         /\ v.userid = u.userid
         /\ v.total_referrals >= u.total_referrals
         /\ IsPrefix(u.referred_users, v.referred_users)]_vars

\* C19: in every reachable state every non-null referred_by is the userid of
\* an existing row other than the referring one, inserted before it (so no
\* row refers to itself and the relation has no cycle).
C19_ReferrerExistsEarlier ==
  \A u \in users :
    u.referred_by # NULL =>
      /\ u.referred_by # u.userid
      /\ \E v \in users :
           /\ v.userid = u.referred_by
           /\ v # u
           /\ v.created_at < u.created_at

\* a chain of two referrals: a referred user is itself a referrer
C19_Witness ==
  \E u, v \in users :
    /\ u.referred_by = v.userid
    /\ v.referred_by # NULL

\* C13: a /bulk-lookup over an array answers with the mapping whose keys
\* are exactly the elements of the array that are registered when findAll
\* runs, each mapped to the userid of the row with that wallet_address; the
\* answer depends on the set of the array's elements only (not on their
\* order or repetition), unregistered addresses are left out, and table
\* users is unchanged.
C13_BulkLookupMapping ==
  [][\A i \in Req :
       (/\ req[i].kind = "bulk-lookup"
        /\ Answered(i)
        /\ req[i].wallet_addresses.isArray)
       => LET asked == Range(req[i].wallet_addresses.items)
              known == {w \in asked :
                          Matching(users, "wallet_address", w) # {}}
          IN /\ req'[i].status = 200
             /\ req'[i].error = ""
             /\ DOMAIN req'[i].mapping = known
             /\ \A w \in known :
                  \E u \in users : /\ u.wallet_address = w
                                   /\ u.userid = req'[i].mapping[w]
             /\ users' = users]_vars

\* a lookup of a registered and an unregistered address was answered with
\* one entry, and so was a lookup of the same two addresses in the other
\* order
C13_Witness ==
  \E i, j \in Req :
    /\ i # j
    /\ req[i].kind = "bulk-lookup" /\ req[i].pc = "done"
    /\ req[j].kind = "bulk-lookup" /\ req[j].pc = "done"
    /\ Len(req[i].wallet_addresses.items) = 2
    /\ Len(req[j].wallet_addresses.items) = 2
    /\ req[i].wallet_addresses.items[1] = req[j].wallet_addresses.items[2]
    /\ req[i].wallet_addresses.items[2] = req[j].wallet_addresses.items[1]
    /\ req[i].wallet_addresses.items[1] # req[i].wallet_addresses.items[2]
    /\ Cardinality(DOMAIN req[i].mapping) = 1
    /\ req[i].mapping = req[j].mapping

\* C16: in the earliest variant no two rows of table users have the same
\* wallet_address.
C16_EarliestWalletUnique ==
  variant = "src/unnamed/part_000" =>
    \A u, v \in users : u.wallet_address = v.wallet_address => u = v
====
